---- MODULE Spec2Model ----
(***************************************************************************)
(* Office-document to PDF processors of pdfcraft (Word, PowerPoint, RTF).  *)
(* Each processor module keeps its own module-level converterPromise and   *)
(* converterInstance and its own copy of getConverter; process() is the    *)
(* per-operation pipeline.  Percentages are kept in tenths of a percent so *)
(* that percent * 0.8 stays exact.                                         *)
(***************************************************************************)
EXTENDS Integers, Sequences, FiniteSets, TLC

\* ---------------------------------------------------------------- bounds
\* processor instances, each running process() once
NumOps == 2
\* sub-progress notifications the engine delivers in a run
MaxSubProgress == 1
\* the largest progress.percent the engine reports in the load-phase runs
MaxRaw == 120

\* ------------------------------------------------------------- constants
Modules == {"word", "pptx", "rtf"}
Ops == 1..NumOps

\* raw engine sub-progress values fed to the initialize callback
RawPercents == {0, 100}

\* every progress.percent of the load-phase runs, some above 100
LoadRaws == 0..MaxRaw

\* values an engine call can reject with: Error instances carry a message,
\* anything else is a non-Error value
Rejections == {[isError |-> TRUE, message |-> "E1"],
               [isError |-> FALSE, message |-> "raw"]}
\* a failed dynamic import rejects with an Error
ImportError == [isError |-> TRUE, message |-> "import"]
NoRejection == [isError |-> FALSE, message |-> "none"]

\* ------------------------------------------------------ strings as chars
Min(a, b) == IF a < b THEN a ELSE b

\* String.prototype.toLowerCase, one character
LowerChar(c) ==
    CASE c = "D" -> "d" [] c = "O" -> "o" [] c = "C" -> "c" [] c = "X" -> "x"
      [] c = "R" -> "r" [] c = "T" -> "t" [] c = "F" -> "f" [] c = "P" -> "p"
      [] OTHER -> c

ToLowerCase(s) == [i \in 1..Len(s) |-> LowerChar(s[i])]

\* positions of the dots of s
DotPositions(s) == {i \in 1..Len(s) : s[i] = "."}

\* file.name.split('.').pop(): the characters after the last dot, the whole
\* name when it has no dot
LastSegment(s) ==
    IF DotPositions(s) = {} THEN s
    ELSE LET d == CHOOSE i \in DotPositions(s) : \A j \in DotPositions(s) : j <= i
         IN SubSeq(s, d + 1, Len(s))

\* file.name.split('.').pop()?.toLowerCase() || ''
ExtOf(name) == ToLowerCase(LastSegment(name))

\* validExts of each processor (the RTF processor compares with 'rtf')
ValidExts(m) ==
    CASE m = "word" -> {<<"d","o","c","x">>, <<"d","o","c">>, <<"o","d","t">>, <<"r","t","f">>}
      [] m = "pptx" -> {<<"p","p","t","x">>, <<"p","p","t">>, <<"o","d","p">>}
      [] m = "rtf"  -> {<<"r","t","f">>}

\* the patterns without the optional x: /\.(doc|odt|rtf)$/i, /\.(ppt|odp)$/i
PatternWordsNoX(m) ==
    CASE m = "word" -> {<<"d","o","c">>, <<"o","d","t">>, <<"r","t","f">>}
      [] m = "pptx" -> {<<"p","p","t">>, <<"o","d","p">>}
      [] m = "rtf"  -> {<<"r","t","f">>}

\* the words of the alternation of each processor's replace pattern:
\* /\.(docx?|odt|rtf)$/i, /\.(pptx?|odp)$/i, /\.rtf$/i
PatternWords(m) ==
    CASE m = "word" -> {<<"d","o","c">>, <<"d","o","c","x">>, <<"o","d","t">>, <<"r","t","f">>}
      [] m = "pptx" -> {<<"p","p","t">>, <<"p","p","t","x">>, <<"o","d","p">>}
      [] m = "rtf"  -> {<<"r","t","f">>}

\* lengths k such that the last k characters of name are a dot followed by
\* a word of the pattern, compared case-insensitively
PatternMatches(m, name) ==
    {k \in 2..Len(name) :
        /\ name[Len(name) - k + 1] = "."
        /\ ToLowerCase(SubSeq(name, Len(name) - k + 2, Len(name))) \in PatternWords(m)}

\* file.name.replace(pattern, ''): the leftmost match is removed
BaseName(m, name) ==
    IF PatternMatches(m, name) = {} THEN name
    ELSE LET k == CHOOSE x \in PatternMatches(m, name) :
                      \A y \in PatternMatches(m, name) : y <= x
         IN SubSeq(name, 1, Len(name) - k)

PdfSuffix == <<".", "p", "d", "f">>

\* `${baseName}.pdf`
OutputName(m, name) == BaseName(m, name) \o PdfSuffix

\* ------------------------------------------------------------ file names
\* input.files of the concurrent runs: no file, a .Rtf file (accepted by the
\* Word and RTF processors), a .txt file
Inputs ==
    { <<>>,
      << <<"a", ".", "R", "t", "f">> >>,
      << <<"a", ".", "t", "x", "t">> >> }

\* input.files of the load-phase runs: a file for each processor
LoadInputs ==
    Inputs \cup { << <<"a", ".", "o", "d", "p">> >> }

\* spellings of the last segment of a file name
Spellings ==
    { <<"d","o","c","x">>, <<"D","O","C","X">>, <<"d","o","c">>, <<"D","o","c">>,
      <<"o","d","t">>, <<"O","D","T">>, <<"r","t","f">>, <<"R","t","f">>,
      <<"p","p","t","x">>, <<"P","P","T","X">>, <<"p","p","t">>, <<"P","p","T">>,
      <<"o","d","p">>, <<"O","D","P">>, <<"t","x","t">>, <<"d","o","c","x","x">>,
      <<>> }

\* what precedes the last dot of a file name
Stems == { <<"R">>, <<"a", ".", "b">>, <<"a", ".", "d", "o", "c">>, <<>> }

\* file names of the single runs: with a dot, and without any
FileNames ==
    {st \o <<".">> \o sp : st \in Stems, sp \in Spellings} \cup Spellings

\* input.files of the single runs
SoloInputs ==
    {<<>>} \cup {<<n>> : n \in FileNames}
           \cup {<<n, n>> : n \in {<<"R", ".", "d", "o", "c">>, <<"t", "x", "t">>}}

\* ------------------------------------------------------------------ state
VARIABLES
    converterPromise,   \* per module: "null", "pending", "fulfilled", "rejected"
    converterInstance,  \* per module: "null" or "engine"
    asyncBody,          \* per module: where the async body of converterPromise is
    rejection,          \* per module: the value converterPromise rejected with
    initOwner,          \* per module: the operation whose callback initialize got
    initCalls,          \* per module: number of calls of initialize
    subCount,           \* per module: sub-progress notifications delivered
    lastPercent,        \* per module: progress.percent of the last notification
    engineReady,        \* isReady() of the engine of getLibreOfficeConverter()
    pc,                 \* per operation: position in process()
    kind,               \* per operation: the processor module it runs in
    files,              \* per operation: input.files (the names)
    cancelled,          \* per operation: the processor's cancellation flag
    events,             \* per operation: percentages passed to updateProgress
    result,             \* per operation: the ProcessOutput returned
    how,                \* per operation: the path taken through getConverter
    exitAt,             \* per operation: the return statement process() left by
    caught,             \* per operation: the value caught by the catch block
    convCalls,          \* per operation: number of calls of convertToPdf
    afterFailure          \* per operation: called after a conversion of its module failed

handleVars == <<converterPromise, converterInstance, asyncBody, rejection,
                initOwner, initCalls, subCount, lastPercent, engineReady>>
opVars == <<pc, kind, files, cancelled, events, result, how, exitAt, caught,
            convCalls, afterFailure>>
vars == <<converterPromise, converterInstance, asyncBody, rejection,
          initOwner, initCalls, subCount, lastPercent, engineReady,
          pc, kind, files, cancelled, events, result, how, exitAt, caught,
          convCalls, afterFailure>>

NoResult == [tag |-> "none", code |-> "none", detail |-> "none", name |-> <<>>]

Init ==
    /\ converterPromise = [m \in Modules |-> "null"]
    /\ converterInstance = [m \in Modules |-> "null"]
    /\ asyncBody = [m \in Modules |-> "none"]
    /\ rejection = [m \in Modules |-> NoRejection]
    /\ initOwner = [m \in Modules |-> 0]
    /\ initCalls = [m \in Modules |-> 0]
    /\ subCount = [m \in Modules |-> 0]
    /\ lastPercent = [m \in Modules |-> 0]
    /\ engineReady = FALSE
    /\ pc = [o \in Ops |-> "idle"]
    /\ kind = [o \in Ops |-> "word"]
    /\ files = [o \in Ops |-> <<>>]
    /\ cancelled = [o \in Ops |-> FALSE]
    /\ events = [o \in Ops |-> <<>>]
    /\ result = [o \in Ops |-> NoResult]
    /\ how = [o \in Ops |-> "none"]
    /\ exitAt = [o \in Ops |-> "none"]
    /\ caught = [o \in Ops |-> NoRejection]
    /\ convCalls = [o \in Ops |-> 0]
    /\ afterFailure = [o \in Ops |-> FALSE]

\* ------------------------------------------------------- BasePDFProcessor
\* percentages are in tenths of a percent
Pct(n) == n * 10

\* updateProgress(percent, message): hands the percentage to the sink
UpdateProgress(ev, pct) == Append(ev, pct)

\* createErrorOutput(code, message, detail)
CreateErrorOutput(code, detail) ==
    [tag |-> "Error", code |-> code, detail |-> detail, name |-> <<>>]

\* createSuccessOutput(blob, fileName, metadata)
CreateSuccessOutput(fileName) ==
    [tag |-> "Success", code |-> "none", detail |-> "none", name |-> fileName]

\* checkCancelled()
CheckCancelled(o) == cancelled[o]

\* --------------------------------------------------------------- process()
\* percent * 0.8 without Math.min
LoadPercentNoClamp(raw) == raw * 8

\* Math.min(percent * 0.8, 80) of the callback handed to getConverter
LoadPercent(raw) == Min(raw * 8, Pct(80))

\* the detail without the message of the error
ErrorDetailNoMessage(r) == "Unknown error"

\* error instanceof Error ? error.message : 'Unknown error'
ErrorDetail(r) == IF r.isError THEN r.message ELSE "Unknown error"

\* files.length === 0
WrongFileCountEmptyOnly(fs) == Len(fs) = 0

\* files.length !== 1
WrongFileCount(fs) == Len(fs) # 1

\* only a name without extension is refused
InvalidTypeEmptyOnly(m, name) == ExtOf(name) = <<>>

\* !validExts.includes(ext)
InvalidType(m, name) == ExtOf(name) \notin ValidExts(m)

\* isReady() of the engine getLibreOfficeConverter() returns: the one shared
\* engine has been initialized
IsReady == engineReady

\* converterInstance?.isReady()
InstanceReady(m) == converterInstance[m] # "null" /\ IsReady

\* getConverter without the converterPromise test
GetConverterPathNoAttach(m) ==
    IF InstanceReady(m) THEN "ready" ELSE "started"

\* getConverter that reuses converterPromise only while it is pending
GetConverterPathPendingOnly(m) ==
    IF converterPromise[m] = "pending" THEN "attached" ELSE "started"

\* the branch getConverter takes: the instance is ready, a promise exists
\* to await, or a new promise is created
GetConverterPath(m) ==
    IF InstanceReady(m) THEN "ready"
    ELSE IF converterPromise[m] # "null" THEN "attached"
    ELSE "started"

\* the awaiting operation is resumed only when converterPromise fulfils
AcquisitionSettledFulfilledOnly(o) ==
    how[o] = "ready" \/ converterPromise[kind[o]] = "fulfilled"

\* the promise process() is suspended on has settled
AcquisitionSettled(o) ==
    \/ how[o] = "ready"
    \/ converterPromise[kind[o]] \in {"fulfilled", "rejected"}

\* a cancelled operation never sees the rejection of converterPromise
AcquisitionThrowsUnlessCancelled(o) ==
    how[o] # "ready" /\ converterPromise[kind[o]] = "rejected" /\ ~cancelled[o]

\* await converterPromise throws
AcquisitionThrows(o) ==
    how[o] # "ready" /\ converterPromise[kind[o]] = "rejected"

\* process() returns out
Return(o, out, at) ==
    /\ result' = [result EXCEPT ![o] = out]
    /\ exitAt' = [exitAt EXCEPT ![o] = at]
    /\ pc' = [pc EXCEPT ![o] = "done"]

\* process(input, onProgress) up to its first suspension: reset, the two
\* validations, updateProgress(5) and the synchronous part of getConverter
Process(o, m, fs) ==
    /\ pc[o] = "idle"
    /\ \A p \in Ops : p < o => pc[p] # "idle"
    /\ kind' = [kind EXCEPT ![o] = m]
    /\ files' = [files EXCEPT ![o] = fs]
    /\ cancelled' = [cancelled EXCEPT ![o] = FALSE]
    /\ afterFailure' = [afterFailure EXCEPT ![o] =
                         \E p \in Ops : kind[p] = m /\ exitAt[p] = "convertFailed"]
    /\ IF WrongFileCount(fs)
       THEN /\ Return(o, CreateErrorOutput("INVALID_OPTIONS",
                         "Received " \o ToString(Len(fs)) \o " file(s)."),
                      "fileCount")
            /\ UNCHANGED <<handleVars, events, how>>
       ELSE IF InvalidType(m, fs[1])
       THEN /\ Return(o, CreateErrorOutput("FILE_TYPE_INVALID",
                         "Received: file.type || file.name"),
                      "fileType")
            /\ UNCHANGED <<handleVars, events, how>>
       ELSE /\ events' = [events EXCEPT ![o] = UpdateProgress(@, Pct(5))]
            /\ how' = [how EXCEPT ![o] = GetConverterPath(m)]
            /\ pc' = [pc EXCEPT ![o] = "acquiring"]
            /\ IF GetConverterPath(m) = "started"
               THEN /\ converterPromise' = [converterPromise EXCEPT ![m] = "pending"]
                    /\ asyncBody' = [asyncBody EXCEPT ![m] = "import"]
                    /\ initOwner' = [initOwner EXCEPT ![m] = o]
                    /\ UNCHANGED <<converterInstance, rejection, initCalls,
                                   subCount, lastPercent, engineReady>>
               ELSE UNCHANGED handleVars
            /\ UNCHANGED <<result, exitAt>>
    /\ UNCHANGED <<caught, convCalls>>

\* await import('@/lib/libreoffice') resolves: converterInstance is set and
\* initialize is called with the callback of the caller that started it
ImportResolves(m) ==
    /\ asyncBody[m] = "import"
    /\ converterInstance' = [converterInstance EXCEPT ![m] = "engine"]
    /\ initCalls' = [initCalls EXCEPT ![m] = @ + 1]
    /\ asyncBody' = [asyncBody EXCEPT ![m] = "initialize"]
    /\ UNCHANGED <<converterPromise, rejection, initOwner, subCount, lastPercent, engineReady>>
    /\ UNCHANGED opVars

\* await import('@/lib/libreoffice') rejects: the async body throws
ImportRejects(m) ==
    /\ asyncBody[m] = "import"
    /\ converterPromise' = [converterPromise EXCEPT ![m] = "rejected"]
    /\ rejection' = [rejection EXCEPT ![m] = ImportError]
    /\ asyncBody' = [asyncBody EXCEPT ![m] = "done"]
    /\ UNCHANGED <<converterInstance, initOwner, initCalls, subCount, lastPercent, engineReady>>
    /\ UNCHANGED opVars

\* the engine reports sub-progress: the callback given to initialize calls
\* onProgress?.(percent, message), the callback of the starting caller
InitProgress(m, raw) ==
    /\ asyncBody[m] = "initialize"
    /\ subCount["word"] + subCount["pptx"] + subCount["rtf"] < MaxSubProgress
    /\ subCount' = [subCount EXCEPT ![m] = @ + 1]
    /\ lastPercent' = [lastPercent EXCEPT ![m] = raw]
    /\ events' = [events EXCEPT ![initOwner[m]] = UpdateProgress(@, LoadPercent(raw))]
    /\ UNCHANGED <<converterPromise, converterInstance, asyncBody, rejection,
                   initOwner, initCalls, engineReady>>
    /\ UNCHANGED <<pc, kind, files, cancelled, result, how, exitAt, caught,
                   convCalls, afterFailure>>

\* initialize resolves: the engine is ready and converterPromise fulfils
InitResolves(m) ==
    /\ asyncBody[m] = "initialize"
    /\ engineReady' = TRUE
    /\ converterPromise' = [converterPromise EXCEPT ![m] = "fulfilled"]
    /\ asyncBody' = [asyncBody EXCEPT ![m] = "done"]
    /\ UNCHANGED <<converterInstance, rejection, initOwner, initCalls, subCount, lastPercent>>
    /\ UNCHANGED opVars

\* initialize rejects: converterPromise rejects and stays assigned
InitRejects(m, r) ==
    /\ asyncBody[m] = "initialize"
    /\ converterPromise' = [converterPromise EXCEPT ![m] = "rejected"]
    /\ rejection' = [rejection EXCEPT ![m] = r]
    /\ asyncBody' = [asyncBody EXCEPT ![m] = "done"]
    /\ UNCHANGED <<converterInstance, initOwner, initCalls, subCount, lastPercent, engineReady>>
    /\ UNCHANGED opVars

\* await getConverter(...) throws: the catch block returns PROCESSING_FAILED
AcquireFails(o) ==
    /\ pc[o] = "acquiring"
    /\ AcquisitionSettled(o)
    /\ AcquisitionThrows(o)
    /\ caught' = [caught EXCEPT ![o] = rejection[kind[o]]]
    /\ Return(o, CreateErrorOutput("PROCESSING_FAILED",
                                   ErrorDetail(rejection[kind[o]])),
              "acquireFailed")
    /\ UNCHANGED handleVars
    /\ UNCHANGED <<kind, files, cancelled, events, how, convCalls, afterFailure>>

\* await getConverter(...) returns and checkCancelled() is true
AcquireCancelled(o) ==
    /\ pc[o] = "acquiring"
    /\ AcquisitionSettled(o)
    /\ ~AcquisitionThrows(o)
    /\ CheckCancelled(o)
    /\ Return(o, CreateErrorOutput("PROCESSING_CANCELLED", "none"),
              "acquireCancelled")
    /\ UNCHANGED handleVars
    /\ UNCHANGED <<kind, files, cancelled, events, how, caught, convCalls,
                   afterFailure>>

\* the conversion starts without the checkCancelled() checkpoint
StartConversionUnchecked(o) ==
    /\ pc[o] = "acquiring"
    /\ AcquisitionSettled(o)
    /\ ~AcquisitionThrows(o)
    /\ events' = [events EXCEPT ![o] = UpdateProgress(@, Pct(85))]
    /\ convCalls' = [convCalls EXCEPT ![o] = @ + 1]
    /\ pc' = [pc EXCEPT ![o] = "converting"]
    /\ UNCHANGED handleVars
    /\ UNCHANGED <<kind, files, cancelled, result, how, exitAt, caught,
                   afterFailure>>

\* await getConverter(...) returns, updateProgress(85), convertToPdf(file)
StartConversion(o) ==
    /\ pc[o] = "acquiring"
    /\ AcquisitionSettled(o)
    /\ ~AcquisitionThrows(o)
    /\ ~CheckCancelled(o)
    /\ events' = [events EXCEPT ![o] = UpdateProgress(@, Pct(85))]
    /\ convCalls' = [convCalls EXCEPT ![o] = @ + 1]
    /\ pc' = [pc EXCEPT ![o] = "converting"]
    /\ UNCHANGED handleVars
    /\ UNCHANGED <<kind, files, cancelled, result, how, exitAt, caught,
                   afterFailure>>

\* the cancelled operation also drops the module's engine handle
ConvertCancelledDropsHandle(o) ==
    /\ pc[o] = "converting"
    /\ CheckCancelled(o)
    /\ Return(o, CreateErrorOutput("PROCESSING_CANCELLED", "none"),
              "convertCancelled")
    /\ converterPromise' = [converterPromise EXCEPT ![kind[o]] = "null"]
    /\ converterInstance' = [converterInstance EXCEPT ![kind[o]] = "null"]
    /\ UNCHANGED <<asyncBody, rejection, initOwner, initCalls, subCount, lastPercent, engineReady>>
    /\ UNCHANGED <<kind, files, cancelled, events, how, caught, convCalls,
                   afterFailure>>

\* updateProgress(100) is made before the checkCancelled() that follows
\* convertToPdf
ConvertCancelledAfterComplete(o) ==
    /\ pc[o] = "converting"
    /\ CheckCancelled(o)
    /\ events' = [events EXCEPT ![o] = UpdateProgress(@, Pct(100))]
    /\ Return(o, CreateErrorOutput("PROCESSING_CANCELLED", "none"),
              "convertCancelled")
    /\ UNCHANGED handleVars
    /\ UNCHANGED <<kind, files, cancelled, how, caught, convCalls, afterFailure>>

\* convertToPdf resolves and checkCancelled() is true
ConvertCancelled(o) ==
    /\ pc[o] = "converting"
    /\ CheckCancelled(o)
    /\ Return(o, CreateErrorOutput("PROCESSING_CANCELLED", "none"),
              "convertCancelled")
    /\ UNCHANGED handleVars
    /\ UNCHANGED <<kind, files, cancelled, events, how, caught, convCalls,
                   afterFailure>>

\* convertToPdf resolves: updateProgress(100) and the success output
ConvertSucceeds(o) ==
    /\ pc[o] = "converting"
    /\ ~CheckCancelled(o)
    /\ events' = [events EXCEPT ![o] = UpdateProgress(@, Pct(100))]
    /\ Return(o, CreateSuccessOutput(OutputName(kind[o], files[o][1])), "success")
    /\ UNCHANGED handleVars
    /\ UNCHANGED <<kind, files, cancelled, how, caught, convCalls, afterFailure>>

\* the catch block reports a cancelled operation as cancelled
ConvertFailsChecksCancel(o, r) ==
    /\ pc[o] = "converting"
    /\ caught' = [caught EXCEPT ![o] = r]
    /\ Return(o, IF CheckCancelled(o)
                    THEN CreateErrorOutput("PROCESSING_CANCELLED", "none")
                    ELSE CreateErrorOutput("PROCESSING_FAILED", ErrorDetail(r)),
              "convertFailed")
    /\ UNCHANGED handleVars
    /\ UNCHANGED <<kind, files, cancelled, events, how, convCalls, afterFailure>>

\* the catch block also drops the module's engine handle
ConvertFailsDropsHandle(o, r) ==
    /\ pc[o] = "converting"
    /\ caught' = [caught EXCEPT ![o] = r]
    /\ Return(o, CreateErrorOutput("PROCESSING_FAILED", ErrorDetail(r)),
              "convertFailed")
    /\ converterPromise' = [converterPromise EXCEPT ![kind[o]] = "null"]
    /\ converterInstance' = [converterInstance EXCEPT ![kind[o]] = "null"]
    /\ UNCHANGED <<asyncBody, rejection, initOwner, initCalls, subCount, lastPercent, engineReady>>
    /\ UNCHANGED <<kind, files, cancelled, events, how, convCalls, afterFailure>>

\* convertToPdf rejects: the catch block returns PROCESSING_FAILED
ConvertFails(o, r) ==
    /\ pc[o] = "converting"
    /\ caught' = [caught EXCEPT ![o] = r]
    /\ Return(o, CreateErrorOutput("PROCESSING_FAILED", ErrorDetail(r)),
              "convertFailed")
    /\ UNCHANGED handleVars
    /\ UNCHANGED <<kind, files, cancelled, events, how, convCalls, afterFailure>>

\* cancel() of the processor of a running operation
Cancel(o) ==
    /\ pc[o] \in {"acquiring", "converting"}
    /\ ~cancelled[o]
    /\ cancelled' = [cancelled EXCEPT ![o] = TRUE]
    /\ UNCHANGED handleVars
    /\ UNCHANGED <<pc, kind, files, events, result, how, exitAt, caught, convCalls,
                   afterFailure>>

\* the engine's steps and the continuations of process()
Steps ==
    \/ \E m \in Modules : ImportResolves(m)
    \/ \E m \in Modules : ImportRejects(m)
    \/ \E m \in Modules, raw \in RawPercents : InitProgress(m, raw)
    \/ \E m \in Modules : InitResolves(m)
    \/ \E m \in Modules, r \in Rejections : InitRejects(m, r)
    \/ \E o \in Ops : AcquireFails(o)
    \/ \E o \in Ops : AcquireCancelled(o)
    \/ \E o \in Ops : StartConversion(o)
    \/ \E o \in Ops : ConvertCancelled(o)
    \/ \E o \in Ops : ConvertSucceeds(o)
    \/ \E o \in Ops, r \in Rejections : ConvertFails(o, r)
    \/ \E o \in Ops : Cancel(o)

\* concurrent runs of the processors
Next ==
    \/ \E o \in Ops, m \in Modules, fs \in Inputs : Process(o, m, fs)
    \/ Steps

Spec == Init /\ [][Next]_vars

\* a single run, over every file name
NextSolo ==
    \/ \E m \in Modules, fs \in SoloInputs : Process(1, m, fs)
    \/ Steps

SpecSolo == Init /\ [][NextSolo]_vars

\* a single run in which the engine reports any percentage of LoadRaws
NextLoad ==
    \/ \E m \in Modules, fs \in LoadInputs : Process(1, m, fs)
    \/ \E m \in Modules, raw \in LoadRaws : InitProgress(m, raw)
    \/ Steps

SpecLoad == Init /\ [][NextLoad]_vars

\* the dynamic import settles
ImportSettles(m) == ImportResolves(m) \/ ImportRejects(m)

\* initialize resolves or rejects
InitSettles(m) == InitResolves(m) \/ \E r \in Rejections : InitRejects(m, r)

\* process() resumes after await getConverter(...)
AcquisitionResumes(o) == AcquireFails(o) \/ AcquireCancelled(o) \/ StartConversion(o)

\* convertToPdf resolves or rejects and process() resumes
ConversionSettles(o) ==
    ConvertCancelled(o) \/ ConvertSucceeds(o) \/ \E r \in Rejections : ConvertFails(o, r)

\* every engine call settles and every continuation that can run does run
Fairness ==
    /\ \A m \in Modules : WF_vars(ImportSettles(m)) /\ WF_vars(InitSettles(m))
    /\ \A o \in Ops : WF_vars(AcquisitionResumes(o)) /\ WF_vars(ConversionSettles(o))

\* concurrent runs of the Word processor
NextFair ==
    \/ \E o \in Ops, fs \in Inputs : Process(o, "word", fs)
    \/ Steps

\* the concurrent runs of the Word processor under fairness
SpecFair == Init /\ [][NextFair]_vars /\ Fairness

\* ----------------------------------------------------------- vocabulary
\* the operation went through converterPromise (it created or awaited it)
ViaPromise(o) == how[o] \in {"started", "attached"}

\* the operation is past its await of getConverter
PastAcquisition(o) == pc[o] \in {"converting", "done"} /\ how[o] # "none"

\* the operation ended because its await of getConverter threw
FailedAcquiring(o) ==
    /\ pc[o] = "done"
    /\ how[o] # "none"
    /\ result[o].code = "PROCESSING_FAILED"
    /\ convCalls[o] = 0

\* the operation ended because convertToPdf threw
FailedConverting(o) ==
    /\ pc[o] = "done"
    /\ result[o].code = "PROCESSING_FAILED"
    /\ convCalls[o] = 1

\* the promise the operation awaited in getConverter is rejected
AcquisitionRejected(o) ==
    how[o] \in {"started", "attached"} /\ converterPromise[kind[o]] = "rejected"

\* the value the engine call the operation waited on rejected with
Underlying(o) ==
    IF AcquisitionRejected(o) THEN rejection[kind[o]] ELSE caught[o]

\* an engine call the operation waited on has rejected
EngineFailed(o) == AcquisitionRejected(o) \/ caught[o] # NoRejection

\* the cancellation of the operation was requested while it was acquiring
CancelledAcquiring(o) ==
    pc[o] = "done" /\ how[o] # "none" /\ cancelled[o] /\ convCalls[o] = 0

\* the accepted extensions of each format
AcceptedExtensions(m) ==
    CASE m = "word" -> {<<"d","o","c","x">>, <<"d","o","c">>, <<"o","d","t">>, <<"r","t","f">>}
      [] m = "pptx" -> {<<"p","p","t","x">>, <<"p","p","t">>, <<"o","d","p">>}
      [] m = "rtf"  -> {<<"r","t","f">>}

\* the name without its extension: what precedes the last dot, the whole
\* name when it has no dot
Stem(name) ==
    IF DotPositions(name) = {} THEN name
    ELSE SubSeq(name, 1, Len(name) - Len(LastSegment(name)) - 1)

\* every field of the operation is unchanged by the step
OpUnchanged(b) ==
    /\ pc'[b] = pc[b] /\ kind'[b] = kind[b] /\ files'[b] = files[b]
    /\ cancelled'[b] = cancelled[b] /\ events'[b] = events[b]
    /\ result'[b] = result[b] /\ how'[b] = how[b] /\ exitAt'[b] = exitAt[b]
    /\ caught'[b] = caught[b] /\ convCalls'[b] = convCalls[b]

\* the state of a module's engine handle, in the words of the design
HandleState(m) ==
    IF InstanceReady(m) THEN "Ready"
    ELSE IF converterPromise[m] = "pending" THEN "Initializing"
    ELSE IF converterPromise[m] = "rejected" THEN "Failed"
    ELSE "Unrequested"

\* ------------------------------------------------------------------ C1
\* C1: single-flight. Whatever number of operations of one module call
\* getConverter before its initialization has settled, initialize is called
\* at most once by that module, and the operations that went through
\* converterPromise all get the ready engine or all fail with the same value.
C1_SingleFlight ==
    /\ \A m \in Modules : initCalls[m] <= 1
    /\ \A o \in Ops :
          (ViaPromise(o) /\ PastAcquisition(o) /\ ~FailedAcquiring(o))
              => (InstanceReady(kind[o]) /\ initCalls[kind[o]] = 1)
    /\ \A o, p \in Ops :
          (/\ kind[o] = kind[p]
           /\ ViaPromise(o) /\ PastAcquisition(o)
           /\ ViaPromise(p) /\ PastAcquisition(p))
              => /\ FailedAcquiring(o) <=> FailedAcquiring(p)
                 /\ FailedAcquiring(o) =>
                       /\ caught[o] = caught[p]
                       /\ result[o].detail = result[p].detail

\* two operations of one module, one that started the initialization and one
\* that attached to it, both end in success after a single initialize
C1_Witness ==
    \E o, p \in Ops :
        /\ o # p /\ kind[o] = kind[p]
        /\ how[o] = "started" /\ how[p] = "attached"
        /\ result[o].tag = "Success" /\ result[p].tag = "Success"
        /\ initCalls[kind[o]] = 1

\* ------------------------------------------------------------------ C2
\* C2: retry after failure. A call of getConverter made when the module's
\* initialization has failed does not await the failed converterPromise: a
\* failed initialization is never sticky.
C2_RetryAfterFailure ==
    [][\A o \in Ops :
          (/\ pc[o] = "idle"
           /\ pc'[o] = "acquiring"
           /\ converterPromise[kind'[o]] = "rejected")
              => how'[o] # "attached"]_vars

\* ------------------------------------------------------------------ C3
\* C3: within one run of process() the percentages passed to updateProgress
\* never decrease and lie between 0 and 100.
C3_ProgressMonotone ==
    \A o \in Ops :
        /\ \A i \in 1..Len(events[o]) :
              events[o][i] >= 0 /\ events[o][i] <= Pct(100)
        /\ \A i, j \in 1..Len(events[o]) :
              i < j => events[o][i] <= events[o][j]

C5_CancellationLocal ==
    [][\A a \in Ops :
          (\/ cancelled'[a] /\ ~cancelled[a]
           \/ /\ result'[a].code = "PROCESSING_CANCELLED"
              /\ result[a].code # "PROCESSING_CANCELLED")
              => /\ UNCHANGED handleVars
                 /\ \A b \in Ops \ {a} : OpUnchanged(b)]_vars

\* the operation that started the initialization was cancelled and returned
\* PROCESSING_CANCELLED, the operation attached to it succeeded
C5_Witness ==
    \E a, b \in Ops :
        /\ a # b /\ kind[a] = kind[b]
        /\ how[a] = "started" /\ cancelled[a]
        /\ result[a].code = "PROCESSING_CANCELLED"
        /\ how[b] = "attached" /\ result[b].tag = "Success"

\* ------------------------------------------------------------------ C6
\* C6: a call of process() with a number of files other than one returns
\* INVALID_OPTIONS at once, and the engine is not touched: no getConverter
\* call, no promise, no initialize, no convertToPdf, no progress event.
C6_WrongFileCount ==
    \A o \in Ops :
        (pc[o] # "idle" /\ Len(files[o]) # 1) =>
            /\ pc[o] = "done"
            /\ result[o].tag = "Error"
            /\ result[o].code = "INVALID_OPTIONS"
            /\ how[o] = "none"
            /\ convCalls[o] = 0
            /\ events[o] = <<>>
            /\ \A m \in Modules :
                  /\ converterPromise[m] = "null"
                  /\ converterInstance[m] = "null"
                  /\ initCalls[m] = 0

\* a call with two files has returned INVALID_OPTIONS
C6_Witness ==
    \E o \in Ops :
        /\ Len(files[o]) = 2
        /\ pc[o] = "done"
        /\ result[o].code = "INVALID_OPTIONS"

\* ------------------------------------------------------------------ C7
\* C7: a call of process() with one file whose extension is not accepted by
\* the format returns FILE_TYPE_INVALID in the same step, leaves every
\* engine handle as it was and emits no progress event.
C7_InvalidTypeNoEffect ==
    [][\A o \in Ops :
          (/\ pc[o] = "idle"
           /\ pc'[o] # "idle"
           /\ Len(files'[o]) = 1
           /\ ToLowerCase(LastSegment(files'[o][1])) \notin AcceptedExtensions(kind'[o]))
              => /\ pc'[o] = "done"
                 /\ result'[o].tag = "Error"
                 /\ result'[o].code = "FILE_TYPE_INVALID"
                 /\ events'[o] = <<>>
                 /\ how'[o] = "none"
                 /\ convCalls'[o] = 0
                 /\ UNCHANGED handleVars]_vars

\* a file of a wrong type was refused while the initialization of the same
\* module was pending
C7_Witness ==
    \E o \in Ops :
        /\ result[o].code = "FILE_TYPE_INVALID"
        /\ converterPromise[kind[o]] = "pending"
        /\ events[o] = <<>>

\* ------------------------------------------------------------------ C8
\* C8: for a file that passes validation, a run with no cancellation and no
\* engine failure returns Success, and the suggested name of every Success
\* is the input's name without its extension followed by ".pdf".
C8_SuggestedFileName ==
    \A o \in Ops :
        (/\ pc[o] = "done"
         /\ Len(files[o]) = 1
         /\ ToLowerCase(LastSegment(files[o][1])) \in AcceptedExtensions(kind[o]))
            => /\ (~cancelled[o] /\ ~EngineFailed(o)) => result[o].tag = "Success"
               /\ result[o].tag = "Success" =>
                     result[o].name = Stem(files[o][1]) \o <<".", "p", "d", "f">>

\* 'R.DOCX' has been converted by the Word processor to 'R.pdf'
C8_Witness ==
    \E o \in Ops :
        /\ kind[o] = "word"
        /\ files[o] = << <<"R", ".", "D", "O", "C", "X">> >>
        /\ result[o].tag = "Success"
        /\ result[o].name = <<"R", ".", "p", "d", "f">>

\* ------------------------------------------------------------------ C9
\* C9 as stated: every failure of the acquisition or of convertToPdf comes
\* back as an Error result with code PROCESSING_FAILED whose detail is the
\* message of the underlying failure.
C9_DetailIsMessage ==
    \A o \in Ops :
        (pc[o] = "done" /\ EngineFailed(o)) =>
            /\ result[o].tag = "Error"
            /\ result[o].code = "PROCESSING_FAILED"
            /\ result[o].detail = Underlying(o).message

\* C9 amended: every failure of the acquisition or of convertToPdf comes back
\* as an Error result with code PROCESSING_FAILED; its detail is the message
\* of the failure when the failure is an Error, 'Unknown error' otherwise.
C9_FailureCaught ==
    \A o \in Ops :
        (pc[o] = "done" /\ EngineFailed(o)) =>
            /\ result[o].tag = "Error"
            /\ result[o].code = "PROCESSING_FAILED"
            /\ result[o].detail =
                  IF Underlying(o).isError THEN Underlying(o).message
                  ELSE "Unknown error"

\* a conversion rejected with a value that is no Error, and an acquisition
\* rejected with an Error, were both returned as PROCESSING_FAILED
C9_Witness ==
    \E o, p \in Ops :
        /\ pc[o] = "done" /\ convCalls[o] = 1
        /\ caught[o] # NoRejection /\ ~caught[o].isError
        /\ result[o].detail = "Unknown error"
        /\ pc[p] = "done" /\ AcquisitionRejected(p)
        /\ rejection[kind[p]].isError
        /\ result[p].detail = rejection[kind[p]].message

\* ----------------------------------------------------------------- C10
\* C10: the step in which convertToPdf fails leaves every engine handle
\* unchanged and the module's engine ready; a process() call made after it
\* in the same module gets the instance at once, with no new promise and no
\* new initialize.
C10_ConversionFailureKeepsEngine ==
    [][\A o \in Ops :
          /\ (/\ pc[o] = "converting"
              /\ pc'[o] = "done"
              /\ result'[o].code = "PROCESSING_FAILED")
                 => (UNCHANGED handleVars /\ InstanceReady(kind[o]))
          /\ FailedConverting(o) =>
                \A p \in Ops :
                    (pc[p] = "idle" /\ pc'[p] = "acquiring" /\ kind'[p] = kind[o])
                        => /\ how'[p] = "ready"
                           /\ UNCHANGED handleVars]_vars

\* an operation called after a conversion of its module had failed got the
\* instance at once and succeeded
C10_Witness ==
    \E o, p \in Ops :
        /\ o # p /\ kind[o] = kind[p]
        /\ FailedConverting(o)
        /\ afterFailure[p]
        /\ how[p] = "ready"
        /\ result[p].tag = "Success"
        /\ initCalls[kind[o]] = 1

\* ----------------------------------------------------------------- C11
\* C11: one engine handle serves the three processors: at no time is an
\* initialization pending or completed in more than one module, so initialize
\* is never started while another module's initialization is pending or has
\* succeeded.
C11_OneSharedHandle ==
    Cardinality({m \in Modules : converterPromise[m] \in {"pending", "fulfilled"}}) <= 1

\* ----------------------------------------------------------------- C12
\* C12: every sub-progress notification of initialize reaches the callback of
\* every operation waiting on that module's converterPromise, the operations
\* that attached to it included: each of them gets one more progress event.
C12_ProgressToEveryWaiter ==
    [][\A m \in Modules :
          subCount'[m] = subCount[m] + 1 =>
              \A o \in Ops :
                  (pc[o] = "acquiring" /\ kind[o] = m /\ ViaPromise(o))
                      => Len(events'[o]) = Len(events[o]) + 1]_vars

\* ----------------------------------------------------------------- C13
\* C13: an operation whose cancellation was requested while it waits in the
\* acquisition gets no further progress event.
C13_NoProgressAfterCancel ==
    [][\A o \in Ops :
          (pc[o] = "acquiring" /\ cancelled[o]) => events'[o] = events[o]]_vars

\* ----------------------------------------------------------------- C14
\* C14: the step in which an operation leaves its successful acquisition with
\* its cancellation flag set ends the operation with PROCESSING_CANCELLED,
\* calls convertToPdf not at all and emits no event (so no 85).
C14_CheckpointBeforeConversion ==
    [][\A o \in Ops :
          (/\ pc[o] = "acquiring"
           /\ pc'[o] # "acquiring"
           /\ cancelled[o]
           /\ ~AcquisitionRejected(o))
              => /\ pc'[o] = "done"
                 /\ result'[o].tag = "Error"
                 /\ result'[o].code = "PROCESSING_CANCELLED"
                 /\ convCalls'[o] = 0
                 /\ events'[o] = events[o]
                 /\ \A i \in 1..Len(events'[o]) : events'[o][i] # Pct(85)]_vars

\* an operation that attached to a pending initialization and was cancelled
\* before it succeeded ended cancelled, with neither conversion nor 85
C14_Witness ==
    \E o \in Ops :
        /\ how[o] = "attached"
        /\ converterPromise[kind[o]] = "fulfilled"
        /\ cancelled[o]
        /\ pc[o] = "done"
        /\ result[o].code = "PROCESSING_CANCELLED"
        /\ convCalls[o] = 0
        /\ events[o] = <<Pct(5)>>

\* ----------------------------------------------------------------- C15
\* C15: a process() call made when the module's instance is ready takes the
\* instance at once: no handle variable changes (no promise, no initialize),
\* the operation never becomes the receiver of sub-progress, and its events
\* are 5, then 85, then 100 and nothing else.
C15_ReadyEngineFastPath ==
    /\ [][\A o \in Ops :
             (pc[o] = "idle" /\ pc'[o] = "acquiring" /\ InstanceReady(kind'[o]))
                 => /\ how'[o] = "ready"
                    /\ UNCHANGED handleVars
                    /\ events'[o] = <<Pct(5)>>]_vars
    /\ [](\A o \in Ops :
             how[o] = "ready" =>
                 /\ \A m \in Modules : initOwner[m] # o
                 /\ events[o] \in {<<Pct(5)>>, <<Pct(5), Pct(85)>>,
                                   <<Pct(5), Pct(85), Pct(100)>>}
                 /\ result[o].tag = "Success" =>
                       events[o] = <<Pct(5), Pct(85), Pct(100)>>)

\* an operation that found the engine ready has succeeded with the events
\* 5, 85, 100
C15_Witness ==
    \E o \in Ops :
        /\ how[o] = "ready"
        /\ result[o].tag = "Success"
        /\ events[o] = <<Pct(5), Pct(85), Pct(100)>>
        /\ initCalls[kind[o]] = 1

\* ----------------------------------------------------------------- C16
\* C16: under fairness no operation stays in the acquisition or in the
\* conversion: it reaches "done"; a finished operation has one result, a
\* Success or an Error with one of the terminal codes, and keeps it.
C16_Terminates ==
    /\ \A o \in Ops : (pc[o] \in {"acquiring", "converting"}) ~> (pc[o] = "done")
    /\ [](\A o \in Ops :
             /\ pc[o] = "done" <=> result[o] # NoResult
             /\ pc[o] = "done" =>
                   \/ result[o].tag = "Success" /\ result[o].code = "none"
                   \/ /\ result[o].tag = "Error"
                      /\ result[o].code \in {"INVALID_OPTIONS", "FILE_TYPE_INVALID",
                                             "PROCESSING_CANCELLED", "PROCESSING_FAILED"})
    /\ [][\A o \in Ops : pc[o] = "done" => (pc'[o] = "done" /\ result'[o] = result[o])]_vars

\* every operation has finished: one attached to the other's initialization,
\* one was cancelled, and between them there is a Success and an Error
C16_Witness ==
    /\ \A o \in Ops : pc[o] = "done"
    /\ \E o \in Ops : how[o] = "attached"
    /\ \E o \in Ops : cancelled[o]
    /\ \E o \in Ops : result[o].tag = "Success"
    /\ \E o \in Ops : result[o].tag = "Error"

\* ----------------------------------------------------------------- C17
\* C17: the event emitted for the engine's last progress.percent r is
\* phaseStart + r * (phaseEnd - phaseStart) / 100 clamped to phaseEnd for
\* the load phase [0, 80]: exactly r * 80 / 100 for r in 0..100, and never
\* above 80 whatever r is; no event of an acquiring operation exceeds 80.
C17_LoadPhaseMapping ==
    /\ \A m \in Modules :
          subCount[m] > 0 =>
              LET r == lastPercent[m]
                  e == events[initOwner[m]][1 + subCount[m]]
              IN /\ e = Min(Pct(0) + (r * (Pct(80) - Pct(0))) \div 100, Pct(80))
                 /\ r \in 0..100 => e * 100 = r * Pct(80)
                 /\ e <= Pct(80)
    /\ \A o \in Ops :
          pc[o] = "acquiring" =>
              \A i \in 1..Len(events[o]) : events[o][i] <= Pct(80)

\* the engine reported a percentage above 100 and the starter's event is 80
C17_Witness ==
    \E m \in Modules :
        /\ subCount[m] = 1
        /\ lastPercent[m] > 100
        /\ events[initOwner[m]] = <<Pct(5), Pct(80)>>

\* ----------------------------------------------------------------- C18
\* C18: an operation whose awaited engine call (the acquisition or
\* convertToPdf) rejected has returned PROCESSING_FAILED, cancelled or not;
\* PROCESSING_CANCELLED comes only from a cancelled operation at one of the
\* two checkpoints, and the call that precedes the checkpoint did not reject.
C18_FailureBeforeCancellation ==
    \A o \in Ops :
        pc[o] = "done" =>
            /\ EngineFailed(o) =>
                  /\ result[o].tag = "Error"
                  /\ result[o].code = "PROCESSING_FAILED"
            /\ result[o].code = "PROCESSING_CANCELLED" =>
                  /\ cancelled[o]
                  /\ ~EngineFailed(o)
                  /\ exitAt[o] \in {"acquireCancelled", "convertCancelled"}
                  /\ exitAt[o] = "acquireCancelled" => ~AcquisitionThrows(o)
                  /\ exitAt[o] = "convertCancelled" => caught[o] = NoRejection

\* convertToPdf rejected for a cancelled operation, which returned
\* PROCESSING_FAILED
C18_Witness ==
    \E o \in Ops :
        /\ pc[o] = "done"
        /\ cancelled[o]
        /\ convCalls[o] = 1
        /\ caught[o] # NoRejection
        /\ result[o].code = "PROCESSING_FAILED"

\* ----------------------------------------------------------------- C19
\* C19: the event 100 is among an operation's events exactly when its result
\* is Success; then it is there once and is the last event.
C19_CompleteIffSuccess ==
    \A o \in Ops :
        /\ (\E i \in 1..Len(events[o]) : events[o][i] = Pct(100))
              <=> result[o].tag = "Success"
        /\ result[o].tag = "Success" =>
              /\ events[o][Len(events[o])] = Pct(100)
              /\ \A i \in 1..(Len(events[o]) - 1) : events[o][i] # Pct(100)

\* one operation succeeded with 100 as its last event while another was
\* cancelled after its conversion and ended at 85
C19_Witness ==
    \E o, p \in Ops :
        /\ result[o].tag = "Success"
        /\ events[o][Len(events[o])] = Pct(100)
        /\ result[p].code = "PROCESSING_CANCELLED"
        /\ convCalls[p] = 1
        /\ events[p][Len(events[p])] = Pct(85)

\* ----------------------------------------------------------------- C20
\* C20: a single file passes the extension check exactly when the replace
\* pattern of the processor matches its name, and the suggested name of a
\* Success is then the name with the matched extension removed, plus ".pdf".
C20_ValidationAgreesWithPattern ==
    \A o \in Ops :
        (pc[o] # "idle" /\ Len(files[o]) = 1) =>
            /\ (result[o].code # "FILE_TYPE_INVALID")
                  <=> (PatternMatches(kind[o], files[o][1]) # {})
            /\ result[o].tag = "Success" =>
                  Len(result[o].name) < Len(files[o][1]) + Len(PdfSuffix)

TypeOK ==
    /\ converterPromise \in [Modules -> {"null", "pending", "fulfilled", "rejected"}]
    /\ converterInstance \in [Modules -> {"null", "engine"}]
    /\ engineReady \in BOOLEAN
    /\ lastPercent \in [Modules -> 0..MaxRaw]
    /\ pc \in [Ops -> {"idle", "acquiring", "converting", "done"}]

====
